---- MODULE Spec2Model ----
(***************************************************************************)
(* A model of update_strings_files.py: the .strings parser and writer      *)
(* (LocalizedString, LocalizedFile.read_from_file / save_to_file), the     *)
(* merge (LocalizedFile.merge_with), and the run that drives them (merge,  *)
(* localize_code, localize_interface, __main__).                           *)
(*                                                                         *)
(* Text is a sequence of tokens.  A token is either the newline or the     *)
(* whole content of one line; its field t is the lexical class the         *)
(* script's four regular expressions separate, and key/value carry the     *)
(* two groups of re_translation (for a comment line, key carries the       *)
(* comment's words).  Strings the script compares by content or by prefix  *)
(* (keys, values, the temporary tag, file names) are sequences of          *)
(* one-character strings.                                                  *)
(***************************************************************************)
EXTENDS Integers, Sequences, FiniteSets, TLC

VARIABLES
    \* ---- read_from_file / save_to_file ----
    ppc,        \* "start" | "read" | "saved"
    ptext,      \* the text of the file that is read
    pfile,      \* the LocalizedFile read from it: [ok, strings]
    pout,       \* the text save_to_file wrote
    \* ---- merge_with ----
    mpc,        \* "start" | "merged" | "remerged"
    heap,       \* the LocalizedString objects, by reference
    old,        \* the LocalizedFile merge_with is called on: [strings, strings_d]
    new,        \* its argument new
    final_filename,
    development_language_folder,
    res,        \* what merge_with built: merged and the lists of its report
    \* ---- the module's globals ----
    SHOULD_TRIGGER_WARNING_BECAUSE_OF_TEMP_STRINGS,
    TEMP_WARNING_DETAILS,
    SHOULD_TRIGGER_ERROR_BECAUSE_OF_DEFAULT_STRINGS,
    DEFAULT_ERROR_DETAILS,
    \* ---- the run: __main__, localize_code, localize_interface ----
    rpc,        \* "off" | "code" | "interface" | "end" | "done" | "traceback" | "runs"
    path,       \* -src=
    languages,  \* the *.lproj folders os.listdir(path) gives, in its order
    language,   \* the index in languages the loop is at
    fs,         \* the files of each folder: [code, iface], each [original, old, new, invalid]
    status,     \* what became of each folder in each loop
    calls,      \* the calls of merge() so far
    exit_status,
    run         \* the number of the run of the script on the project

parseVars == <<ppc, ptext, pfile, pout>>
mergeVars == <<mpc, heap, old, new, final_filename, development_language_folder, res>>
globals == <<SHOULD_TRIGGER_WARNING_BECAUSE_OF_TEMP_STRINGS, TEMP_WARNING_DETAILS,
             SHOULD_TRIGGER_ERROR_BECAUSE_OF_DEFAULT_STRINGS, DEFAULT_ERROR_DETAILS>>
runVars == <<rpc, path, languages, language, fs, status, calls, exit_status, run>>
vars == <<parseVars, mergeVars, globals, runVars>>

----------------------------------------------------------------------------
(* Bounds *)
MaxLines == 6       \* lines of a text that is parsed
MaxOld == 2         \* records of the old table of a merge
MaxNew == 2         \* records of the new table of a merge
MaxLanguages == 2   \* *.lproj folders of a run
MaxRuns == 4        \* runs of the script on one project

----------------------------------------------------------------------------
(* Tokens and lines *)

\* F of the value of v, v evaluated once
Eval(v, F(_)) == CHOOSE y \in { F(x) : x \in {v} } : TRUE

Tok(t, k, v) == [t |-> t, key |-> k, value |-> v]
NL == Tok("nl", <<>>, <<>>)

\* f.readline(): the text up to and including the next newline, '' at the end
RECURSIVE readline(_)
readline(rest) ==
    IF rest = <<>> THEN <<>>
    ELSE IF Head(rest).t = "nl" THEN <<NL>>
    ELSE <<Head(rest)>> \o readline(Tail(rest))

\* what is left of the file after one readline()
after(rest) == SubSeq(rest, Len(readline(rest)) + 1, Len(rest))

\* a line without its trailing newline ($ matches before it)
Content(line) ==
    IF line # <<>> /\ line[Len(line)].t = "nl" THEN SubSeq(line, 1, Len(line) - 1)
    ELSE line

\* re_translation = ^"(.+)" = "(.+)";$
re_translation(line) == Len(Content(line)) = 1 /\ Content(line)[1].t = "kv"
\* re_comment_single = ^/\*.*\*/$
re_comment_single(line) == Len(Content(line)) = 1 /\ Content(line)[1].t = "single"
\* re_comment_end = ^.*\*/$
re_comment_end(line) ==
    Content(line) # <<>> /\ Content(line)[Len(Content(line))].t \in {"single", "end"}

----------------------------------------------------------------------------
(* LocalizedString *)

\* LocalizedString.__init__: key and value are the groups of re_translation
LocalizedString(comments, translation) ==
    [comments |-> comments, translation |-> translation,
     key |-> Content(translation)[1].key, value |-> Content(translation)[1].value]

RECURSIVE join(_)
join(lines) == IF lines = <<>> THEN <<>> ELSE Head(lines) \o join(Tail(lines))

\* LocalizedString.__unicode__: u'%s%s\n' % (u''.join(comments), translation)
Unicode_no_blank_line(string) == join(string.comments) \o string.translation
Unicode(string) == join(string.comments) \o string.translation \o <<NL>>

----------------------------------------------------------------------------
(* LocalizedFile.read_from_file *)

\* the inner loop: read on until a line ends a comment, or the file ends
RECURSIVE ReadComment(_, _, _)
ReadComment(line, rest, comments) ==
    IF line # <<>> /\ ~re_comment_end(line)
    THEN ReadComment(readline(rest), after(rest), Append(comments, readline(rest)))
    ELSE [rest |-> rest, comments |-> comments]

\* the blank lines after a record
RECURSIVE SkipBlank(_, _)
SkipBlank(line, rest) ==
    IF line # <<>> /\ line = <<NL>> THEN SkipBlank(readline(rest), after(rest))
    ELSE [line |-> line, rest |-> rest]

\* the outer loop; ok = FALSE is raise Exception('Invalid file.')
RECURSIVE ReadRecords(_, _, _, _)
ReadRecords(line, rest, strings, found_one) ==
    IF line = <<>> THEN [ok |-> TRUE, strings |-> strings]
    ELSE
      LET c == IF re_comment_single(line)
               THEN [rest |-> rest, comments |-> <<line>>]
               ELSE ReadComment(line, rest, <<line>>)
          translation == readline(c.rest)
          rest2 == after(c.rest)
          last_comment == c.comments[Len(c.comments)]
      IN IF translation # <<>> /\ re_translation(translation)
         THEN LET s == SkipBlank(readline(rest2), after(rest2))
              IN ReadRecords(s.line, s.rest,
                             Append(strings, LocalizedString(c.comments, translation)), 1)
         ELSE IF last_comment = <<>> \/ found_one = 0
              THEN [ok |-> TRUE, strings |-> strings]
              ELSE [ok |-> FALSE, strings |-> strings]

read_from_file(text) == ReadRecords(readline(text), after(text), <<>>, 0)

----------------------------------------------------------------------------
(* LocalizedFile.save_to_file *)

RECURSIVE save_to_file(_)
save_to_file(strings) ==
    IF strings = <<>> THEN <<>>
    ELSE Unicode(Head(strings)) \o save_to_file(Tail(strings))

----------------------------------------------------------------------------
(* Strings *)

\* str.startswith
startswith(s, prefix) ==
    Len(prefix) <= Len(s) /\ SubSeq(s, 1, Len(prefix)) = prefix

\* str.find(sub) != -1
contains(s, sub) ==
    \E i \in 1..(Len(s) - Len(sub) + 1) : SubSeq(s, i, i + Len(sub) - 1) = sub

STRINGS_FILE ==
    <<"L", "o", "c", "a", "l", "i", "z", "a", "b", "l", "e", ".",
      "s", "t", "r", "i", "n", "g", "s">>
LPROJ_EXTENSION == <<".", "l", "p", "r", "o", "j">>
BaseLproj == <<"B", "a", "s", "e">> \o LPROJ_EXTENSION
\* TEMP_TAG = '*' unless -tag= gives another
TEMP_TAG == <<"*">>

\* os.path.join
path_join(a, b) == a \o <<"/">> \o b

----------------------------------------------------------------------------
(* LocalizedFile objects: strings is the list of references, strings_d the  *)
(* dict from key to reference                                               *)

EmptyFile == [strings |-> <<>>, strings_d |-> << >>]

\* self.strings.append(string); self.strings_d[string.key] = string
append_string(h, file, ref) ==
    [strings |-> Append(file.strings, ref),
     strings_d |-> [k \in (DOMAIN file.strings_d) \cup {h[ref].key} |->
                       IF k = h[ref].key THEN ref ELSE file.strings_d[k]]]

\* the records read_from_file appends, one object each
RECURSIVE load(_, _, _)
load(h, file, strings) ==
    IF strings = <<>> THEN [heap |-> h, file |-> file]
    ELSE LET h2 == Append(h, Head(strings))
         IN load(h2, append_string(h2, file, Len(h2)), Tail(strings))

\* copy(old_key): a new object with the fields of the old one
copy_alias(h, ref) == [heap |-> h, ref |-> ref]
copy(h, ref) == [heap |-> Append(h, h[ref]), ref |-> Len(h) + 1]

\* the keys of a list of strings
KeysOf(h, refs) == { h[refs[i]].key : i \in DOMAIN refs }

----------------------------------------------------------------------------
(* LocalizedFile.merge_with *)

\* if old_key.value != string.value: if old_key.key != old_key.value: printed = 1
is_translated_by_key_only(h, old_key, string) == h[old_key].key # h[old_key].value
is_translated(h, old_key, string) ==
    h[old_key].value # h[string].value /\ h[old_key].key # h[old_key].value

\* a key that self.strings_d does not hold: the new string goes to added_strings
\* and to merged as it is
merge_added_tagged(st, string) ==
    LET c == copy(st.heap, string)
        h2 == [c.heap EXCEPT ![c.ref].value = TEMP_TAG \o @]
    IN [st EXCEPT !.heap = h2,
                  !.added_strings = Append(@, string),
                  !.merged = append_string(h2, @, c.ref)]
merge_added(st, string) ==
    [st EXCEPT !.added_strings = Append(@, string),
               !.merged = append_string(st.heap, @, string)]

\* a key that self.strings_d holds: a copy of the old string with the new
\* string's comments goes to merged, the old string to translated_strings or
\* to default_strings
merge_existing_appends_comments(self, st, string) ==
    LET h == st.heap
        old_key == self.strings_d[h[string].key]
        c == copy(h, old_key)
        new_string == c.ref
        same == c.heap[new_string].comments = c.heap[string].comments
        h2 == [c.heap EXCEPT ![new_string].comments = @ \o c.heap[string].comments]
        printed == is_translated(h2, old_key, string)
    IN [st EXCEPT !.heap = h2,
                  !.same_comment = same,
                  !.translated_strings = IF printed THEN Append(@, old_key) ELSE @,
                  !.default_strings = IF printed THEN @ ELSE Append(@, old_key),
                  !.merged = append_string(h2, @, new_string)]
merge_existing(self, st, string) ==
    LET h == st.heap
        old_key == self.strings_d[h[string].key]
        c == copy(h, old_key)
        new_string == c.ref
        same == c.heap[new_string].comments = c.heap[string].comments
        h2 == [c.heap EXCEPT ![new_string].comments = c.heap[string].comments]
        printed == is_translated(h2, old_key, string)
    IN [st EXCEPT !.heap = h2,
                  !.same_comment = same,
                  !.translated_strings = IF printed THEN Append(@, old_key) ELSE @,
                  !.default_strings = IF printed THEN @ ELSE Append(@, old_key),
                  !.merged = append_string(h2, @, new_string)]

\* the first loop, over new.strings
RECURSIVE merge_loop(_, _, _, _)
merge_loop(self, newf, i, st) ==
    IF i > Len(newf.strings) THEN st
    ELSE LET string == newf.strings[i]
         IN merge_loop(self, newf, i + 1,
                IF st.heap[string].key \notin DOMAIN self.strings_d
                THEN merge_added(st, string)
                ELSE merge_existing(self, st, string))

\* the second loop: the old strings found in none of the three lists
removed_strings_no_default(h, self, st) ==
    SelectSeq(self.strings,
              LAMBDA o : h[o].key \notin KeysOf(h, st.added_strings)
                                       \cup KeysOf(h, st.translated_strings))
removed_strings(h, self, st) ==
    SelectSeq(self.strings,
              LAMBDA o : h[o].key \notin KeysOf(h, st.added_strings)
                                       \cup KeysOf(h, st.default_strings)
                                       \cup KeysOf(h, st.translated_strings))

\* is_dev_language = final_filename.find(development_language_folder) != -1
\*                   or final_filename.find('Base.lproj') != -1
is_dev_language_no_base(fname, dev) == contains(fname, dev)
is_dev_language(fname, dev) == contains(fname, dev) \/ contains(fname, BaseLproj)

Line(cat, letter, h, ref) ==
    [cat |-> cat, letter |-> letter, key |-> h[ref].key, value |-> h[ref].value]

Detail(kind, k, v) == [kind |-> kind, key |-> k, value |-> v]

\* a list mapped to the lines printed for it
RECURSIVE Lines(_, _, _, _)
Lines(cat, letter, h, refs) ==
    IF refs = <<>> THEN <<>>
    ELSE <<Line(cat, letter, h, Head(refs))>> \o Lines(cat, letter, h, Tail(refs))

RECURSIVE Details(_, _)
Details(h, refs) ==
    IF refs = <<>> THEN <<>>
    ELSE <<Detail("?", h[Head(refs)].key, h[Head(refs)].value)>> \o Details(h, Tail(refs))

RECURSIVE TranslatedLines(_, _)
TranslatedLines(h, refs) ==
    IF refs = <<>> THEN <<>>
    ELSE <<Line(IF startswith(h[Head(refs)].value, TEMP_TAG)
                THEN "Temporary" ELSE "Translated", ".", h, Head(refs))>>
         \o TranslatedLines(h, Tail(refs))

\* merge_with(self, new, final_filename, development_language_folder), called
\* with the globals g; the result holds merged, the lists, what was printed
\* and the globals as the call leaves them
merge_with(h0, self, newf, fname, dev, g) ==
    LET st0 == [heap |-> h0, merged |-> EmptyFile, same_comment |-> FALSE,
                translated_strings |-> <<>>, added_strings |-> <<>>,
                default_strings |-> <<>>]
        st == merge_loop(self, newf, 1, st0)
        h == st.heap
        removed == removed_strings(h, self, st)
        is_dev == is_dev_language(fname, dev)
        letter == IF st.same_comment THEN "o" ELSE "c"
        temporary_strings ==
            SelectSeq(st.translated_strings, LAMBDA r : startswith(h[r].value, TEMP_TAG))
        translated == Len(st.translated_strings)
        true_translated == translated - Len(temporary_strings)
        total == Len(newf.strings)
    IN [heap |-> h,
        merged |-> st.merged,
        added_strings |-> st.added_strings,
        default_strings |-> st.default_strings,
        translated_strings |-> st.translated_strings,
        temporary_strings |-> temporary_strings,
        removed |-> removed,
        is_dev |-> is_dev,
        printed |->
            Lines("Removed", "-", h, removed)
            \o Lines("Added", "+", h, st.added_strings)
            \o Lines(IF is_dev THEN "Original" ELSE "Default", letter, h, st.default_strings)
            \o TranslatedLines(h, st.translated_strings),
        summary |-> [true_translated |-> true_translated, total |-> total,
                     left |-> total - true_translated,
                     percentage |-> IF total # 0 THEN (translated * 100) \div total ELSE 0,
                     percentage_temporary |->
                         IF total # 0 THEN (Len(temporary_strings) * 100) \div total ELSE 0],
        warning |-> IF Len(temporary_strings) # 0 THEN 1 ELSE g.warning,
        warning_details |->
            g.warning_details
            \o (IF Len(st.translated_strings) # 0 THEN <<Detail("+", fname, <<>>)>> ELSE <<>>)
            \o Details(h, temporary_strings),
        error |-> IF Len(st.default_strings) # 0 /\ ~is_dev THEN 1 ELSE g.error,
        error_details |->
            g.error_details
            \o (IF Len(st.default_strings) # 0 /\ ~is_dev
                THEN <<Detail("+", fname, <<>>)>> \o Details(h, st.default_strings)
                ELSE <<>>)]

----------------------------------------------------------------------------
(* Files *)

\* a file is absent, or has an encoding ("utf8", "utf16", "other") and a text
Absent == [enc |-> "absent", text |-> <<>>]
File(enc, text) == [enc |-> enc, text |-> text]
isfile(f) == f.enc # "absent"
\* open(name, 'w')
EmptyFileOnDisk == File("utf8", <<>>)

\* file -b --mime-encoding starts with 'us-ascii' or 'utf'; it says binary
\* of an empty file
mime_is_text(f) == f.enc \in {"utf8", "utf16"} /\ f.text # <<>>

\* iconv -f UTF-16 -t UTF-8 "src" > "dst"
iconv(f) == File("utf8", f.text)

NoFiles == [original |-> Absent, old |-> Absent, new |-> Absent, invalid |-> Absent]

\* LocalizedFile(fname, auto_read=True): the open() of a missing file fails and
\* the handler's f.close() raises; the first readline() of a file that is not
\* UTF-8 fails and leaves the table empty
read_file(f) ==
    IF ~isfile(f) THEN [ok |-> FALSE, strings |-> <<>>]
    ELSE IF f.enc # "utf8" THEN [ok |-> TRUE, strings |-> <<>>]
    ELSE read_from_file(f.text)

\* the strings of a file, by reference, as values
RECURSIVE deref(_, _)
deref(h, refs) ==
    IF refs = <<>> THEN <<>> ELSE <<h[Head(refs)]>> \o deref(h, Tail(refs))

----------------------------------------------------------------------------
(* merge(merged_fname, old_fname, new_fname, development_language_folder)   *)

\* old is bound only when LocalizedFile(old_fname) raised nothing
old_is_bound(ro) == ro.ok

\* merged = old.merge_with(new, ...); merged.save_to_file(merged_fname)
merge_and_save(merged_fname, ro, rn, ln, lo, dev, g) ==
    IF ~rn.ok \/ ~old_is_bound(ro)
    THEN [raised |-> TRUE, saved |-> Absent, globals |-> g,
          call |-> [fname |-> merged_fname, dev |-> dev, old_ok |-> ro.ok, new_ok |-> rn.ok,
                    old_strings |-> ro.strings, new_strings |-> rn.strings, raised |-> TRUE,
                    is_dev |-> is_dev_language(merged_fname, dev),
                    defaults |-> FALSE, saved |-> Absent]]
    ELSE Eval(merge_with(ln.heap, lo.file, ln.file, merged_fname, dev, g),
           LAMBDA r :
             [raised |-> FALSE,
              saved |-> File("utf8", save_to_file(deref(r.heap, r.merged.strings))),
              globals |-> [warning |-> r.warning, warning_details |-> r.warning_details,
                           error |-> r.error, error_details |-> r.error_details],
              call |-> [fname |-> merged_fname, dev |-> dev, old_ok |-> ro.ok,
                        new_ok |-> rn.ok, old_strings |-> ro.strings, new_strings |-> rn.strings, raised |-> FALSE,
                        is_dev |-> r.is_dev,
                        defaults |-> r.default_strings # <<>>,
                        saved |-> File("utf8", save_to_file(deref(r.heap, r.merged.strings)))]])

\* raised: an exception leaves merge(); saved: the file save_to_file wrote
merge(merged_fname, old_file, new_file, dev, g) ==
    Eval(read_file(old_file), LAMBDA ro :
    Eval(read_file(new_file), LAMBDA rn :
    Eval(load(<<>>, EmptyFile, IF ro.ok THEN ro.strings ELSE <<>>), LAMBDA lo :
    Eval(load(lo.heap, EmptyFile, rn.strings), LAMBDA ln :
         merge_and_save(merged_fname, ro, rn, ln, lo, dev, g)))))

NoMerge(g) == [raised |-> FALSE, saved |-> Absent, globals |-> g, call |-> <<>>]

----------------------------------------------------------------------------
(* localize_code: the body of the loop, for one folder; gen is the file the *)
(* extractor writes (Absent when it writes none)                            *)

\* Clean junk files
clean(d) == [d EXCEPT !.old = Absent, !.new = Absent]

\* the original is moved out of the way, by its encoding and its size
set_aside(d) ==
    IF mime_is_text(d.original) THEN [d EXCEPT !.old = d.original, !.original = Absent]
    ELSE IF d.original.text = <<>> THEN [d EXCEPT !.original = Absent]
    ELSE [d EXCEPT !.invalid = d.original, !.original = Absent]

\* os.system(gen_strings_command) / ibtool --export-strings-file
extract(d, gen) == IF isfile(gen) THEN [d EXCEPT !.original = gen] ELSE d

\* the converted output becomes .new, or .new is created empty
make_new(d) ==
    IF isfile(d.original) THEN [d EXCEPT !.new = iconv(d.original)]
    ELSE [d EXCEPT !.new = EmptyFileOnDisk]

\* os.rename(a, b)
rename_new(d) == [d EXCEPT !.original = d.new, !.new = Absent]
rename_invalid(d) == [d EXCEPT !.original = d.invalid, !.invalid = Absent]

\* the folder had no original: the extractor's file, converted, or an empty file
first_file(d) ==
    IF isfile(d.original)
    THEN [d EXCEPT !.old = d.original, !.original = iconv(d.original)]
    ELSE [d EXCEPT !.original = EmptyFileOnDisk]

\* lines 366-412; dev is the argument merge() gets
code_language(d0, gen, fname, dev, g) ==
    LET d1 == clean(d0)
    IN IF isfile(d1.original)
       THEN LET d2 == make_new(extract(set_aside(d1), gen))
            IN IF isfile(d2.old)
               THEN Eval(merge(fname, d2.old, d2.new, dev, g), LAMBDA m :
                         IF m.raised THEN [dir |-> d2, m |-> m]
                         ELSE [dir |-> clean([d2 EXCEPT !.original = m.saved]), m |-> m])
               ELSE [dir |-> clean(IF isfile(d2.new) THEN rename_new(d2)
                                   ELSE IF isfile(d2.invalid) THEN rename_invalid(d2)
                                   ELSE d2),
                     m |-> NoMerge(g)]
       ELSE [dir |-> clean(first_file(extract(d1, gen))), m |-> NoMerge(g)]

\* localize_interface, lines 447-490: no junk is cleaned first, and without
\* .old the .new file is never renamed
iface_language(d1, gen, fname, dev, g) ==
    IF isfile(d1.original)
    THEN LET d2 == make_new(extract(set_aside(d1), gen))
         IN IF isfile(d2.old)
            THEN Eval(merge(fname, d2.old, d2.new, dev, g), LAMBDA m :
                      IF m.raised THEN [dir |-> d2, m |-> m]
                      ELSE [dir |-> clean([d2 EXCEPT !.original = m.saved]), m |-> m])
            ELSE [dir |-> clean(IF isfile(d2.invalid) THEN rename_invalid(d2) ELSE d2),
                  m |-> NoMerge(g)]
    ELSE [dir |-> clean(first_file(extract(d1, gen))), m |-> NoMerge(g)]

----------------------------------------------------------------------------
(* The texts that are parsed *)

KeyA == <<"a">>
KeyB == <<"b">>
ValX == <<"x">>

LineKinds ==
    { <<Tok("single", <<"1">>, <<>>)>>,
      <<Tok("start", <<"1">>, <<>>)>>,
      <<Tok("end", <<"1">>, <<>>)>>,
      <<Tok("junk", <<>>, <<>>)>>,
      <<Tok("kv", KeyA, ValX)>>,
      <<>> }

\* the lines joined, every line with its newline but, when lastNl is FALSE,
\* the last one
RECURSIVE TextOf(_, _)
TextOf(ls, lastNl) ==
    IF ls = <<>> THEN <<>>
    ELSE IF Len(ls) = 1 /\ ~lastNl /\ ls[1] # <<>> THEN ls[1]
    ELSE ls[1] \o <<NL>> \o TextOf(Tail(ls), lastNl)

----------------------------------------------------------------------------
(* What each specification leaves idle *)

ParseIdle ==
    /\ ppc = "off"
    /\ ptext = <<>>
    /\ pfile = [ok |-> TRUE, strings |-> <<>>]
    /\ pout = <<>>

MergeIdle ==
    /\ mpc = "off"
    /\ heap = <<>>
    /\ old = EmptyFile
    /\ new = EmptyFile
    /\ final_filename = <<>>
    /\ development_language_folder = <<>>
    /\ res = [merged |-> EmptyFile]

RunIdle ==
    /\ rpc = "off"
    /\ path = <<>>
    /\ languages = <<>>
    /\ language = 0
    /\ fs = <<>>
    /\ status = <<>>
    /\ calls = <<>>
    /\ exit_status = "none"
    /\ run = 0

\* lines 125-129
GlobalsInit ==
    /\ SHOULD_TRIGGER_WARNING_BECAUSE_OF_TEMP_STRINGS = 0
    /\ TEMP_WARNING_DETAILS = <<>>
    /\ SHOULD_TRIGGER_ERROR_BECAUSE_OF_DEFAULT_STRINGS = 0
    /\ DEFAULT_ERROR_DETAILS = <<>>

Globals ==
    [warning |-> SHOULD_TRIGGER_WARNING_BECAUSE_OF_TEMP_STRINGS,
     warning_details |-> TEMP_WARNING_DETAILS,
     error |-> SHOULD_TRIGGER_ERROR_BECAUSE_OF_DEFAULT_STRINGS,
     error_details |-> DEFAULT_ERROR_DETAILS]

SetGlobals(r) ==
    /\ SHOULD_TRIGGER_WARNING_BECAUSE_OF_TEMP_STRINGS' = r.warning
    /\ TEMP_WARNING_DETAILS' = r.warning_details
    /\ SHOULD_TRIGGER_ERROR_BECAUSE_OF_DEFAULT_STRINGS' = r.error
    /\ DEFAULT_ERROR_DETAILS' = r.error_details

----------------------------------------------------------------------------
(* The parser's specification *)

ParseInit ==
    /\ ppc = "start"
    /\ \E n \in 0..MaxLines : \E ls \in [1..n -> LineKinds], lastNl \in BOOLEAN :
          ptext = TextOf(ls, lastNl)
    /\ pfile = [ok |-> TRUE, strings |-> <<>>]
    /\ pout = <<>>
    /\ MergeIdle
    /\ RunIdle
    /\ GlobalsInit

Read ==
    /\ ppc = "start"
    /\ pfile' = read_from_file(ptext)
    /\ ppc' = "read"
    /\ UNCHANGED <<ptext, pout, mergeVars, globals, runVars>>

Save ==
    /\ ppc = "read"
    /\ pfile.ok
    /\ pout' = save_to_file(pfile.strings)
    /\ ppc' = "saved"
    /\ UNCHANGED <<ptext, pfile, mergeVars, globals, runVars>>

ParseNext == Read \/ Save

SpecParse == ParseInit /\ [][ParseNext]_vars

----------------------------------------------------------------------------
(* The merge's specification: one call of merge_with on two tables as       *)
(* read_from_file builds them                                               *)

Comment1 == << <<Tok("single", <<"1">>, <<>>), NL>> >>
Comment2 == << <<Tok("single", <<"2">>, <<>>), NL>> >>
ValA == <<"a">>
ValTagged == <<"*", "a">>

String(comments, k, v) == LocalizedString(comments, <<Tok("kv", k, v), NL>>)

\* old values: the key itself (for KeyA), the extracted value under another key
\* (for KeyB), a tagged value, a translation
OldStrings == { String(Comment1, k, v) : k \in {KeyA, KeyB}, v \in {ValA, ValTagged, ValX} }
NewStrings == { String(c, k, ValA) : c \in {Comment1, Comment2}, k \in {KeyA, KeyB} }

En == <<"e", "n">>
Fr == <<"f", "r">>
Dot == <<".">>

\* the file names and development-language arguments merge_with is called with
MergeCalls ==
    { [fname |-> path_join(path_join(Dot, l), STRINGS_FILE), dev |-> En \o LPROJ_EXTENSION] :
        l \in {En \o LPROJ_EXTENSION, Fr \o LPROJ_EXTENSION, BaseLproj} }

MergeInit ==
    /\ mpc = "start"
    /\ \E no \in 0..MaxOld, nn \in 0..MaxNew :
         \E os \in [1..no -> OldStrings], ns \in [1..nn -> NewStrings] :
           LET lo == load(<<>>, EmptyFile, os)
               ln == load(lo.heap, EmptyFile, ns)
           IN /\ heap = ln.heap
              /\ old = lo.file
              /\ new = ln.file
    /\ \E c \in MergeCalls :
          /\ final_filename = c.fname
          /\ development_language_folder = c.dev
    /\ res = [merged |-> EmptyFile]
    /\ ParseIdle
    /\ RunIdle
    /\ GlobalsInit

Merge ==
    /\ mpc = "start"
    /\ LET r == merge_with(heap, old, new, final_filename, development_language_folder,
                           Globals)
       IN /\ res' = r
          /\ heap' = r.heap
          /\ SetGlobals(r)
    /\ mpc' = "merged"
    /\ UNCHANGED <<old, new, final_filename, development_language_folder, parseVars, runVars>>

\* m.merge_with(new, ...): the merged table of the first call is the old
\* table of a second call with the same new table
Remerge ==
    /\ mpc = "merged"
    /\ \E r \in {merge_with(heap, res.merged, new, final_filename,
                             development_language_folder, Globals)} :
          /\ res' = r
          /\ heap' = r.heap
          /\ SetGlobals(r)
    /\ mpc' = "remerged"
    /\ UNCHANGED <<old, new, final_filename, development_language_folder, parseVars, runVars>>

MergeNext == Merge \/ Remerge

Spec == MergeInit /\ [][MergeNext]_vars

----------------------------------------------------------------------------
(* The run's specification: __main__ with its default arguments but -src,   *)
(* over the *.lproj folders of path                                         *)

Documents == <<"D", "o", "c", "u", "m", "e", "n", "t", "s">>
MainStrings == <<"M", "a", "i", "n", ".", "s", "t", "r", "i", "n", "g", "s">>

\* development_language = 'en'
development_language == En
\* os.path.splitext(development_language)[0] + LPROJ_EXTENSION
DevelopmentLanguageFolder == development_language \o LPROJ_EXTENSION

\* str.endswith
endswith(s, suffix) ==
    Len(suffix) <= Len(s) /\ SubSeq(s, Len(s) - Len(suffix) + 1, Len(s)) = suffix

LanguageNames == {En \o LPROJ_EXTENSION, Fr \o LPROJ_EXTENSION, BaseLproj}

Record(c, k, v) == join(c) \o <<Tok("kv", k, v), NL, NL>>
TextDefault == Record(Comment1, KeyA, ValA)
TextTagged == Record(Comment1, KeyA, ValTagged)
TextMalformed == Record(Comment1, KeyA, ValX) \o join(Comment1) \o <<Tok("junk", <<>>, <<>>), NL>>
TextNew == Record(Comment2, KeyA, ValA) \o Record(Comment2, KeyB, ValX)

\* the Localizable.strings a folder may hold before the run
CodeFiles ==
    {Absent, File("utf8", <<>>), File("utf8", TextDefault), File("utf8", TextTagged),
     File("utf8", TextMalformed), File("other", TextDefault)}
\* the Main.strings a folder may hold before the run
IfaceFiles == {Absent, File("utf8", TextDefault), File("utf8", TextMalformed)}
\* what the extractor writes: nothing, or a UTF-16 table
Extracted == {Absent, File("utf16", TextNew)}

\* the folders in an order of os.listdir, no name twice
Distinct(seq) == \A a, b \in DOMAIN seq : a # b => seq[a] # seq[b]

\* localize_interface: Base.lproj when the project has it, else the
\* development language's folder
current_language ==
    IF \E k \in DOMAIN languages : languages[k] = BaseLproj
    THEN BaseLproj ELSE DevelopmentLanguageFolder

\* the folders localize_interface loops over, as indices of languages
iface_languages ==
    IF \E k \in DOMAIN languages : languages[k] = current_language
    THEN SelectSeq([k \in DOMAIN languages |-> k],
                   LAMBDA k : ~endswith(path_join(path, languages[k]), current_language))
    ELSE <<>>

RunInit ==
    /\ rpc = "code"
    /\ path \in {Dot, Documents}
    /\ \E n \in 0..MaxLanguages :
         /\ languages \in { seq \in [1..n -> LanguageNames] : Distinct(seq) }
         /\ \E c \in [1..n -> CodeFiles], f \in [1..n -> IfaceFiles] :
               fs = [k \in 1..n |-> [code |-> [NoFiles EXCEPT !.original = c[k]],
                                     iface |-> [NoFiles EXCEPT !.original = f[k]]]]
         /\ status = [k \in 1..n |-> [code |-> "pending", iface |-> "pending"]]
    /\ language = 1
    /\ calls = <<>>
    /\ exit_status = "none"
    /\ run = 1
    /\ ParseIdle
    /\ MergeIdle
    /\ GlobalsInit

\* the log of the calls of merge(), each with the folder it was called for
Logged(m, folder) ==
    IF m.call = <<>> THEN calls ELSE Append(calls, ("folder" :> folder) @@ m.call)

\* one turn of the loop of localize_code; an exception ends the loop (the try
\* is around it) and __main__ goes on
CodeLanguage ==
    /\ rpc = "code"
    /\ language <= Len(languages)
    /\ \E gen \in Extracted :
         \E r \in {code_language(fs[language].code, gen,
                                 path_join(path_join(path, languages[language]), STRINGS_FILE),
                                 development_language, Globals)} :
            /\ fs' = [fs EXCEPT ![language].code = r.dir]
            /\ calls' = Logged(r.m, languages[language])
            /\ SetGlobals(r.m.globals)
            /\ IF r.m.raised
               THEN /\ status' = [status EXCEPT ![language].code = "raised"]
                    /\ rpc' = "interface"
                    /\ language' = 1
               ELSE /\ status' = [status EXCEPT ![language].code = "processed"]
                    /\ rpc' = rpc
                    /\ language' = language + 1
    /\ UNCHANGED <<path, languages, exit_status, run, parseVars, mergeVars>>

CodeDone ==
    /\ rpc = "code"
    /\ language > Len(languages)
    /\ rpc' = "interface"
    /\ language' = 1
    /\ UNCHANGED <<path, languages, fs, status, calls, exit_status, run, globals,
                   parseVars, mergeVars>>

\* one turn of the loop of localize_interface, for Main.storyboard; nothing
\* catches an exception
IfaceLanguage ==
    /\ rpc = "interface"
    /\ language <= Len(iface_languages)
    /\ \E gen \in Extracted :
         \E k \in {iface_languages[language]} :
         \E r \in {iface_language(fs[k].iface, gen,
                                  path_join(path_join(path, languages[k]), MainStrings),
                                  current_language, Globals)} :
            /\ fs' = [fs EXCEPT ![k].iface = r.dir]
            /\ calls' = Logged(r.m, languages[k])
            /\ SetGlobals(r.m.globals)
            /\ IF r.m.raised
               THEN /\ status' = [status EXCEPT ![k].iface = "raised"]
                    /\ rpc' = "traceback"
                    /\ exit_status' = "1"
                    /\ language' = language
               ELSE /\ status' = [status EXCEPT ![k].iface = "processed"]
                    /\ rpc' = rpc
                    /\ exit_status' = exit_status
                    /\ language' = language + 1
    /\ UNCHANGED <<path, languages, run, parseVars, mergeVars>>

IfaceDone ==
    /\ rpc = "interface"
    /\ language > Len(iface_languages)
    /\ rpc' = "end"
    /\ UNCHANGED <<path, languages, language, fs, status, calls, exit_status, run, globals,
                   parseVars, mergeVars>>

\* lines 578-589: the warning is echoed, the error ends the run with quit(-4)
End ==
    /\ rpc = "end"
    /\ rpc' = "done"
    /\ exit_status' = IF SHOULD_TRIGGER_ERROR_BECAUSE_OF_DEFAULT_STRINGS = 1 THEN "-4" ELSE "0"
    /\ UNCHANGED <<path, languages, language, fs, status, calls, run, globals,
                   parseVars, mergeVars>>

RunNext == CodeLanguage \/ CodeDone \/ IfaceLanguage \/ IfaceDone \/ End

SpecRun == RunInit /\ [][RunNext]_vars

----------------------------------------------------------------------------
(* Runs of the script, one after the other, on a project with one folder,   *)
(* fr.lproj, that holds no interface file; every run is a new process       *)

\* lines 125-129, as a record
FreshGlobals == [warning |-> 0, warning_details |-> <<>>, error |-> 0, error_details |-> <<>>]

RunsInit ==
    /\ rpc = "runs"
    /\ path = Dot
    /\ languages = <<Fr \o LPROJ_EXTENSION>>
    /\ language = 1
    /\ \E c \in CodeFiles :
          fs = <<[code |-> [NoFiles EXCEPT !.original = c], iface |-> NoFiles]>>
    /\ status = <<[code |-> "pending", iface |-> "pending"]>>
    /\ calls = <<>>
    /\ exit_status = "none"
    /\ run = 1
    /\ ParseIdle
    /\ MergeIdle
    /\ GlobalsInit

\* one run: localize_code takes up the folder with the files the run before
\* left in it
LocalizeCode ==
    /\ rpc = "runs"
    /\ run <= MaxRuns
    /\ \E gen \in Extracted :
         \E r \in {code_language(fs[1].code, gen,
                                 path_join(path_join(path, languages[1]), STRINGS_FILE),
                                 development_language, FreshGlobals)} :
            /\ fs' = [fs EXCEPT ![1].code = r.dir]
            /\ calls' = Logged(r.m, languages[1])
            /\ SetGlobals(r.m.globals)
            /\ status' = [status EXCEPT ![1].code = IF r.m.raised THEN "raised" ELSE "processed"]
    /\ run' = run + 1
    /\ UNCHANGED <<rpc, path, languages, language, exit_status, parseVars, mergeVars>>

RunsNext == LocalizeCode

SpecRuns == RunsInit /\ [][RunsNext]_vars

----------------------------------------------------------------------------
(* Properties of merge_with *)

Merged == mpc = "merged"
Range(seq) == { seq[i] : i \in DOMAIN seq }
Count(seq, x) == Cardinality({ i \in DOMAIN seq : seq[i] = x })
KeyAt(file, i) == heap[file.strings[i]].key
OldKeys == KeysOf(heap, old.strings)
NewKeys == KeysOf(heap, new.strings)
MergedKeys == KeysOf(heap, res.merged.strings)
Occurrences(file, k) == Cardinality({ i \in DOMAIN file.strings : KeyAt(file, i) = k })
NotDev == ~is_dev_language(final_filename, development_language_folder)
\* the table of the call is the development language's or Base's, read off
\* the file name of the call
DevelopmentTable ==
    \/ contains(final_filename, development_language_folder)
    \/ contains(final_filename, BaseLproj)
Tagged(ref) == startswith(heap[ref].value, TEMP_TAG)

AddedKeys == KeysOf(heap, res.added_strings)
DefaultKeys == KeysOf(heap, res.default_strings)
TemporaryKeys == KeysOf(heap, res.temporary_strings)
TranslatedKeys ==
    KeysOf(heap, SelectSeq(res.translated_strings, LAMBDA r : r \notin Range(res.temporary_strings)))
RemovedKeys == KeysOf(heap, res.removed)

\* C1 (as claimed; the code breaks it): after merge_with every key of new is
\* exactly once in merged.strings, no key of old that new lacks is in merged,
\* and merged.strings has no key twice.
C1_MergeTotality ==
    Merged =>
        /\ \A k \in NewKeys : Occurrences(res.merged, k) = 1
        /\ \A k \in OldKeys \ NewKeys : k \notin MergedKeys
        /\ \A k \in MergedKeys : Occurrences(res.merged, k) = 1

\* C2: merged lists its strings in the order of new; a string whose key old
\* holds has the old string's value and the new string's comments; and the
\* merge leaves every string of old as it was.
C2_OldValueNewComments ==
    [][ (mpc = "start" /\ mpc' = "merged") =>
          /\ Len(res'.merged.strings) = Len(new.strings)
          /\ \A i \in DOMAIN new.strings :
               LET n == heap[new.strings[i]]
                   m == heap'[res'.merged.strings[i]]
               IN /\ m.key = n.key
                  /\ n.key \in DOMAIN old.strings_d =>
                        /\ m.value = heap[old.strings_d[n.key]].value
                        /\ m.comments = n.comments
          /\ \A r \in DOMAIN heap : heap'[r] = heap[r] ]_vars

\* C2: a state where the case of C2 happens
C2_Witness ==
    /\ Merged
    /\ \E i \in DOMAIN new.strings :
         LET n == heap[new.strings[i]]
         IN /\ n.key \in DOMAIN old.strings_d
            /\ heap[old.strings_d[n.key]].comments # n.comments
            /\ heap[old.strings_d[n.key]].value # n.value
            /\ heap[res.merged.strings[i]].comments = n.comments

\* C3 (as claimed): when the table is not the development language, a key of
\* new that old lacks is in merged with the temporary tag before its value and
\* is classified as temporary.
C3_AddedIsTagged ==
    (Merged /\ NotDev) =>
        \A i \in DOMAIN new.strings :
            KeyAt(new, i) \notin OldKeys =>
                /\ Tagged(res.merged.strings[i])
                /\ KeyAt(new, i) \in TemporaryKeys

\* C3 (amended): a key of new that old lacks is in merged as the new string
\* itself, its value unchanged (no tag is put before it), and is classified as
\* added, never as temporary, whichever language the table is.
C3_AddedIsKept ==
    [][ (mpc = "start" /\ mpc' = "merged") =>
          \A i \in DOMAIN new.strings :
              heap[new.strings[i]].key \notin OldKeys =>
                  /\ i \in DOMAIN res'.merged.strings
                  /\ res'.merged.strings[i] = new.strings[i]
                  /\ heap'[new.strings[i]] = heap[new.strings[i]]
                  /\ Count(res'.added_strings, new.strings[i]) = 1
                  /\ heap[new.strings[i]].key \notin
                        KeysOf(heap', res'.temporary_strings) ]_vars

\* C3: a state where the case of C3 happens
C3_Witness ==
    /\ Merged
    /\ NotDev
    /\ old.strings = <<>>
    /\ Len(new.strings) = MaxNew
    /\ \E i \in DOMAIN new.strings :
          /\ ~Tagged(res.merged.strings[i])
          /\ res.merged.strings[i] \in Range(res.added_strings)

DefaultFor(o, k) ==
    { i \in DOMAIN new.strings :
        /\ KeyAt(new, i) = k
        /\ \/ heap[o].value = heap[new.strings[i]].value
           \/ heap[o].key = heap[o].value }
TranslatedFor(o, k) ==
    { i \in DOMAIN new.strings : KeyAt(new, i) = k } \ DefaultFor(o, k)

C5_DevNeverTemporary ==
    (Merged /\ DevelopmentTable) =>
        /\ \A i \in DOMAIN res.merged.strings : ~Tagged(res.merged.strings[i])
        /\ res.temporary_strings = <<>>
        /\ SHOULD_TRIGGER_WARNING_BECAUSE_OF_TEMP_STRINGS = 0

\* C5 (amended): when the merged table is the development language, the merge
\* never sets the error flag for default strings and adds nothing to the
\* error's details, whatever old holds; the temporary tag is not exempted: a
\* string of old that is classified as temporary sets the warning flag as in
\* any other language.
C5_DevNeverError ==
    (Merged /\ DevelopmentTable) =>
        /\ SHOULD_TRIGGER_ERROR_BECAUSE_OF_DEFAULT_STRINGS = 0
        /\ DEFAULT_ERROR_DETAILS = <<>>
        /\ (SHOULD_TRIGGER_WARNING_BECAUSE_OF_TEMP_STRINGS = 1) <=> (res.temporary_strings # <<>>)

\* C5: a state where the case of C5 happens
C5_Witness ==
    /\ Merged
    /\ DevelopmentTable
    /\ contains(final_filename, BaseLproj)
    /\ res.default_strings # <<>>
    /\ res.temporary_strings # <<>>
    /\ \E i \in DOMAIN res.merged.strings : Tagged(res.merged.strings[i])

Disjoint(A, B) == A \cap B = {}

\* C6 (as claimed): added, translated, temporary and removed are pairwise
\* disjoint sets of keys, added, translated and temporary together are the
\* keys of new, and removed is the keys of old without those of new.
C6_FourClasses ==
    Merged =>
        /\ Disjoint(AddedKeys, TranslatedKeys) /\ Disjoint(AddedKeys, TemporaryKeys)
        /\ Disjoint(AddedKeys, RemovedKeys) /\ Disjoint(TranslatedKeys, TemporaryKeys)
        /\ Disjoint(TranslatedKeys, RemovedKeys) /\ Disjoint(TemporaryKeys, RemovedKeys)
        /\ AddedKeys \cup TranslatedKeys \cup TemporaryKeys = NewKeys
        /\ RemovedKeys = OldKeys \ NewKeys

\* C6 (amended): added, translated, temporary and removed are pairwise
\* disjoint sets of keys, added, translated, temporary and default together
\* are the keys of new, and removed is the keys of old without those of new.
C6_FiveClasses ==
    Merged =>
        /\ Disjoint(AddedKeys, TranslatedKeys) /\ Disjoint(AddedKeys, TemporaryKeys)
        /\ Disjoint(AddedKeys, RemovedKeys) /\ Disjoint(TranslatedKeys, TemporaryKeys)
        /\ Disjoint(TranslatedKeys, RemovedKeys) /\ Disjoint(TemporaryKeys, RemovedKeys)
        /\ AddedKeys \cup TranslatedKeys \cup TemporaryKeys \cup DefaultKeys = NewKeys
        /\ RemovedKeys = OldKeys \ NewKeys

\* C6: a state where the case of C6 happens
C6_Witness ==
    /\ Merged
    /\ AddedKeys # {}
    /\ DefaultKeys # {}
    /\ RemovedKeys = {}
    /\ OldKeys # {}

----------------------------------------------------------------------------
(* Properties of read_from_file and save_to_file *)

RECURSIVE LinesOf(_)
LinesOf(text) ==
    IF text = <<>> THEN <<>> ELSE <<readline(text)>> \o LinesOf(after(text))

HasNewline(line) == line # <<>> /\ line[Len(line)].t = "nl"
KindOf(line) == IF Len(Content(line)) = 1 THEN Content(line)[1].t ELSE "blank"

\* a comment block: one line /* ... */, or the lines from a line /* ... to the
\* first line ... */
CommentBlock(ls) ==
    \/ Len(ls) = 1 /\ KindOf(ls[1]) = "single"
    \/ /\ Len(ls) >= 2
       /\ KindOf(ls[1]) = "start"
       /\ KindOf(ls[Len(ls)]) = "end"
       /\ \A i \in 2..(Len(ls) - 1) : KindOf(ls[i]) = "junk"

\* records only, each a comment block, a key-value line and one blank line
RECURSIVE OneBlankLineEach(_)
OneBlankLineEach(ls) ==
    \/ ls = <<>>
    \/ \E k \in 1..(Len(ls) - 2) :
          /\ CommentBlock(SubSeq(ls, 1, k))
          /\ KindOf(ls[k + 1]) = "kv"
          /\ ls[k + 2] = <<NL>>
          /\ \A i \in 1..(k + 2) : HasNewline(ls[i])
          /\ OneBlankLineEach(SubSeq(ls, k + 3, Len(ls)))

----------------------------------------------------------------------------
(* Properties of the run *)

\* the file merge() saves for an empty old table and the strings of new
SavedForEmptyOld(c) ==
    LET ln == load(<<>>, EmptyFile, c.new_strings)
        r == merge_with(ln.heap, EmptyFile, ln.file, c.fname, c.dev, Globals)
    IN File("utf8", save_to_file(deref(r.heap, r.merged.strings)))

\* C8 (as claimed; the code breaks it): a call of merge() whose old table does
\* not load goes on as with an empty old table and saves the merged table.
C8_OldFailureIsEmptyOld ==
    \A n \in DOMAIN calls :
        (~calls[n].old_ok /\ calls[n].new_ok) =>
            /\ ~calls[n].raised
            /\ calls[n].saved = SavedForEmptyOld(calls[n])

\* C9 (as claimed; the code breaks it): a folder whose load or merge fails is
\* the only one skipped: once localize_code is over every folder was taken up,
\* and no failure keeps the run from its end-of-run decision.
C9_PerLocaleIsolation ==
    /\ rpc # "traceback"
    /\ rpc \in {"interface", "end", "done"} =>
          \A k \in DOMAIN languages : status[k].code \in {"processed", "raised"}
    /\ rpc \in {"end", "done"} =>
          \A n \in DOMAIN iface_languages :
              status[iface_languages[n]].iface \in {"processed", "raised"}

DevelopmentFolders == {DevelopmentLanguageFolder, BaseLproj}

\* C10 (as claimed; the code breaks it): only the table of the development
\* language's folder or of Base.lproj is treated as the development language,
\* and the run ends with quit(-4) exactly when a merge of another folder's
\* table classified a string as default.
C10_ErrorIffForeignDefault ==
    /\ \A n \in DOMAIN calls : calls[n].is_dev => calls[n].folder \in DevelopmentFolders
    /\ rpc = "done" =>
          (exit_status = "-4" <=>
              \E n \in DOMAIN calls :
                  calls[n].defaults /\ calls[n].folder \notin DevelopmentFolders)

\* C11 (as claimed; the code breaks it): once localize_code has taken up a
\* folder, whether its turn ended or raised, the folder holds a
\* Localizable.strings file, whatever it held before and whether or not the
\* extractor wrote a file.
C11_FileAlwaysExists ==
    \A k \in DOMAIN status :
        status[k].code \in {"processed", "raised"} => isfile(fs[k].code.original)

----------------------------------------------------------------------------
(* Properties of the report and of repeated merges *)

\* no key is held by two records of the table
NoDuplicateKeys(file) ==
    \A i, j \in DOMAIN file.strings : KeyAt(file, i) = KeyAt(file, j) => i = j

\* the lines of the report that are about default strings
DefaultLines == { n \in DOMAIN res.printed : res.printed[n].cat \in {"Original", "Default"} }

\* the comments of the string with key k are the same in old and in new
OwnCommentsEqual(k) ==
    heap[old.strings_d[k]].comments = heap[new.strings_d[k]].comments

\* C12 (as claimed; the code breaks it): in the report of merge_with every
\* default string is printed with the letter o when its own comments are the
\* same in old and in new and with the letter c when they differ, whatever
\* the comments of the other strings of the merge are.
C12_LetterPerEntry ==
    (Merged /\ NoDuplicateKeys(old) /\ NoDuplicateKeys(new)) =>
        \A n \in DefaultLines :
            res.printed[n].letter =
                IF OwnCommentsEqual(res.printed[n].key) THEN "o" ELSE "c"

\* the keys, the values and the comments of a table, in its order
Entries(h, file) ==
    [i \in DOMAIN file.strings |->
        [key |-> h[file.strings[i]].key,
         value |-> h[file.strings[i]].value,
         comments |-> h[file.strings[i]].comments]]

\* C13: for tables without duplicate keys, merging the merged table with the
\* same new table again yields a table with the same keys in the same order,
\* the same values and the same comments as the merged table.
C13_MergeIdempotent ==
    [][ (mpc = "merged" /\ mpc' = "remerged"
            /\ NoDuplicateKeys(old) /\ NoDuplicateKeys(new)) =>
          Entries(heap', res'.merged) = Entries(heap, res.merged) ]_vars

\* C13: a state where the case of C13 happens
C13_Witness ==
    /\ mpc = "remerged"
    /\ NoDuplicateKeys(old) /\ NoDuplicateKeys(new)
    /\ Len(new.strings) = MaxNew
    /\ NewKeys \ OldKeys # {}
    /\ \E k \in OldKeys \cap NewKeys :
          /\ heap[old.strings_d[k]].value # heap[new.strings_d[k]].value
          /\ heap[old.strings_d[k]].comments # heap[new.strings_d[k]].comments
          /\ \E i \in DOMAIN res.merged.strings :
                /\ heap[res.merged.strings[i]].key = k
                /\ heap[res.merged.strings[i]].value = heap[old.strings_d[k]].value
                /\ heap[res.merged.strings[i]].comments = heap[new.strings_d[k]].comments

----------------------------------------------------------------------------
(* Properties of runs that follow one another *)

\* the files of the folder the runs are about
Folder == fs[1].code

\* the step took Localizable.strings.old away, or put another file in its place
OldFileGone == isfile(Folder.old) /\ fs'[1].code.old # Folder.old

\* the step called merge() on the table that file held, and merge() saved
\* the merged table
MergedFrom(f) ==
    \E n \in DOMAIN calls' :
        /\ n > Len(calls)
        /\ ~calls'[n].raised
        /\ calls'[n].old_ok
        /\ read_file(f).ok
        /\ calls'[n].old_strings = read_file(f).strings
        /\ isfile(calls'[n].saved)

\* C14 (as claimed; the code breaks it): over the runs of localize_code on a
\* folder, a Localizable.strings.old that a run left behind is deleted only by
\* a run that has merged its table and saved the merged Localizable.strings.
C14_OldDeletedAfterMerge ==
    [][ (rpc = "runs" /\ OldFileGone) => MergedFrom(Folder.old) ]_vars

====
